---- MODULE Spec2Model ----
(***************************************************************************)
(* Model of auto_sbux_v1.0_stable.py: the extraction and reconciliation    *)
(* pipeline of a Starbucks invoice (process_starbucks_invoice,             *)
(* extract_items_from_starbucks_invoice, generate_summary, main).          *)
(*                                                                         *)
(* Representation.  A Python str is a sequence of one-character strings,   *)
(* so that substring tests and regular expressions are computed on the     *)
(* characters.  A number (float or int) is an integer count of hundredths: *)
(* 62.56 is 6256, the int 16 is 1600.  The inputs hold only numbers with   *)
(* at most two decimals, which this represents exactly.  GL codes and GL   *)
(* descriptions are opaque and are TLA+ strings.  A Python dict (an item)  *)
(* is a function from its keys.                                            *)
(***************************************************************************)
EXTENDS Integers, Sequences, FiniteSets, TLC

\* ---------------------------------------------------------------- strings

Digits == {"0", "1", "2", "3", "4", "5", "6", "7", "8", "9"}

DigitChars == <<"0", "1", "2", "3", "4", "5", "6", "7", "8", "9">>

\* \d of the re module, on the characters the inputs hold.
IsDigit(c) == c \in Digits

\* [\d.] of the text pattern.
IsDigitOrDot(c) == c \in Digits \cup {"."}

DigitVal(c) == CHOOSE d \in 0..9 : DigitChars[d + 1] = c

\* int(s) for a string of decimal digits (0 for the empty string).
RECURSIVE DigitsToNat(_)
DigitsToNat(s) ==
    IF s = <<>> THEN 0
    ELSE 10 * DigitsToNat(SubSeq(s, 1, Len(s) - 1)) + DigitVal(s[Len(s)])

\* str(n) for a natural number n.
RECURSIVE NatToChars(_)
NatToChars(n) ==
    IF n < 10 THEN <<DigitChars[n + 1]>>
    ELSE NatToChars(n \div 10) \o <<DigitChars[(n % 10) + 1]>>

\* s.zfill(w) for a string of digits.
RECURSIVE zfill(_, _)
zfill(s, w) == IF Len(s) >= w THEN s ELSE zfill(<<"0">> \o s, w)

\* The 9-character code whose number is n ("011120225" is Code9(11120225)).
Code9(n) == zfill(NatToChars(n), 9)

AllDigits(s, lo, hi) == \A k \in lo..hi : IsDigit(s[k])

\* pat in s
Contains(s, pat) ==
    \E i \in 1..(Len(s) - Len(pat) + 1) : SubSeq(s, i, i + Len(pat) - 1) = pat

\* A strip that strips nothing.
lstrip0Mutant(s) == s

\* s.lstrip('0')
RECURSIVE lstrip0(_)
lstrip0(s) == IF s # <<>> /\ Head(s) = "0" THEN lstrip0(Tail(s)) ELSE s

\* s.split('\n')
RECURSIVE split(_)
split(s) ==
    IF \A k \in 1..Len(s) : s[k] # "\n" THEN <<s>>
    ELSE LET k == CHOOSE k \in 1..Len(s) :
                      s[k] = "\n" /\ \A j \in 1..(k - 1) : s[j] # "\n"
         IN  <<SubSeq(s, 1, k - 1)>> \o split(SubSeq(s, k + 1, Len(s)))

\* ------------------------------------------------------------ cell values

\* A table cell as pdfplumber hands it over: None, a str, an int or a float.
CellNone == [t |-> "none", s |-> <<>>, n |-> 0]
CellStr(chars) == [t |-> "str", s |-> chars, n |-> 0]
CellInt(k) == [t |-> "int", s |-> <<>>, n |-> k]
\* a float, given in hundredths
CellFloat(h) == [t |-> "float", s |-> <<>>, n |-> h]

\* repr of a non-negative float with at most two decimals (shortest form).
ReprFloat(h) ==
    NatToChars(h \div 100) \o <<".">> \o
    (IF h % 10 = 0 THEN <<DigitChars[((h % 100) \div 10) + 1]>>
     ELSE <<DigitChars[((h % 100) \div 10) + 1], DigitChars[(h % 10) + 1]>>)

\* The characters of s as repr shows them inside the quotes: a newline is
\* shown as a backslash and an n.
RECURSIVE Escape(_)
Escape(s) ==
    IF s = <<>> THEN <<>>
    ELSE (IF Head(s) = "\n" THEN <<"\\", "n">> ELSE <<Head(s)>>) \o Escape(Tail(s))

\* repr(cell)
Repr(cell) ==
    CASE cell.t = "none"  -> <<"N", "o", "n", "e">>
      [] cell.t = "str"   -> <<"'">> \o Escape(cell.s) \o <<"'">>
      [] cell.t = "int"   -> IF cell.n < 0 THEN <<"-">> \o NatToChars(-cell.n)
                             ELSE NatToChars(cell.n)
      [] cell.t = "float" -> IF cell.n < 0 THEN <<"-">> \o ReprFloat(-cell.n)
                             ELSE ReprFloat(cell.n)

RECURSIVE JoinRepr(_)
JoinRepr(row) ==
    IF row = <<>> THEN <<>>
    ELSE IF Len(row) = 1 THEN Repr(row[1])
    ELSE Repr(row[1]) \o <<",", " ">> \o JoinRepr(Tail(row))

\* str(row) of a list of cells
StrRow(row) == <<"[">> \o JoinRepr(row) \o <<"]">>

\* bool(cell): None, '', 0 and 0.0 are false.
Truthy(cell) ==
    CASE cell.t = "none" -> FALSE
      [] cell.t = "str"  -> cell.s # <<>>
      [] OTHER           -> cell.n # 0

\* ----------------------------------------------------- regular expressions

\* re.findall(r'\d+\.\d{2}', s): the matches, left to right and not
\* overlapping, each as its value in hundredths.  i is the scan position.
RECURSIVE FindMoneyFrom(_, _)
FindMoneyFrom(s, i) ==
    IF i > Len(s) THEN <<>>
    ELSE IF ~IsDigit(s[i]) THEN FindMoneyFrom(s, i + 1)
    ELSE LET \* j: the first position after the run of digits that starts at i
             j == CHOOSE j \in (i + 1)..(Len(s) + 1) :
                      /\ AllDigits(s, i, j - 1)
                      /\ (j = Len(s) + 1 \/ ~IsDigit(s[j]))
         IN  IF j + 2 <= Len(s) /\ s[j] = "." /\ IsDigit(s[j + 1]) /\ IsDigit(s[j + 2])
             THEN <<100 * DigitsToNat(SubSeq(s, i, j - 1))
                      + DigitsToNat(SubSeq(s, j + 1, j + 2))>>
                  \o FindMoneyFrom(s, j + 3)
             ELSE FindMoneyFrom(s, j)

FindMoney(s) == FindMoneyFrom(s, 1)

\* re.match(r'^\d{9}$', s): nine digits, and $ also matches just before a
\* newline that ends the string.
MatchNineDigits(s) ==
    /\ Len(s) >= 9
    /\ AllDigits(s, 1, 9)
    /\ (Len(s) = 9 \/ (Len(s) = 10 /\ s[10] = "\n"))

\* s.replace('.', '', 1)
RemoveFirstDot(s) ==
    IF \A k \in 1..Len(s) : s[k] # "." THEN s
    ELSE LET k == CHOOSE k \in 1..Len(s) :
                      s[k] = "." /\ \A j \in 1..(k - 1) : s[j] # "."
         IN  SubSeq(s, 1, k - 1) \o SubSeq(s, k + 1, Len(s))

\* s.isdigit()
isdigit(s) == s # <<>> /\ AllDigits(s, 1, Len(s))

\* Whether float(s) succeeds for a string of digits and dots: one dot at
\* most and one digit at least.
FloatOk(s) ==
    /\ Cardinality({k \in 1..Len(s) : s[k] = "."}) <= 1
    /\ \E k \in 1..Len(s) : IsDigit(s[k])

\* float(s) in hundredths, for a string FloatOk accepts (two decimals at most).
FloatOfStr(s) ==
    IF \A k \in 1..Len(s) : s[k] # "." THEN 100 * DigitsToNat(s)
    ELSE LET k == CHOOSE k \in 1..Len(s) : s[k] = "."
             frac == SubSeq(s, k + 1, Len(s))
         IN  100 * DigitsToNat(SubSeq(s, 1, k - 1))
             + (CASE Len(frac) = 0 -> 0
                  [] Len(frac) = 1 -> 10 * DigitsToNat(frac)
                  [] OTHER         -> DigitsToNat(SubSeq(frac, 1, 2)))

\* ------------------------------------------------------------------ items

\* An item dict as the extraction passes build it.
Item(code, qty, amt) ==
    ("Item Code" :> code) @@ ("Quantity" :> qty) @@ ("Line Total" :> amt)

\* The hard-coded items of the known invoice (quantities and line totals in
\* hundredths).
sample_items == <<
    Item(Code9(11120225), 1600, 6256),
    Item(Code9(11107006), 4800, 19248),
    Item(Code9(11039690), 600, 4020),
    Item(Code9(11119849), 48000, 128640),
    Item(Code9(11087054), 2400, 9960),
    Item(Code9(11104438), 1200, 8376),
    Item(Code9(11048109), 6000, 65700),
    Item(Code9(11051145), 600, 7140),
    Item(Code9(11092210), 3000, 18000),
    Item(Code9(11147043), 1200, 13260),
    Item(Code9(11147042), 2400, 32160),
    Item(Code9(11112621), 10000, 9100),
    Item(Code9(11124712), 32400, 94284),
    Item(Code9(11096120), 33000, 62370),
    Item(Code9(11104506), 31500, 75285),
    Item(Code9(11127439), 6300, 23877),
    Item(Code9(11141348), 6000, 25440),
    Item(Code9(11070181), 8400, 38640),
    Item(Code9(11084236), 19200, 23040),
    Item(Code9(11084235), 27000, 31050),
    Item(Code9(11053916), 7200, 10872),
    Item(Code9(11053919), 8000, 3040),
    Item(Code9(11158844), 12000, 9600),
    Item(Code9(11077811), 27000, 29430),
    Item(Code9(11091451), 12600, 20538),
    Item(Code9(11114037), 32000, 51840),
    Item(Code9(11112622), 2500, 1675),
    Item(Code9(11096116), 28800, 68832),
    Item(Code9(11096117), 9600, 19008),
    Item(Code9(11106074), 12000, 37080),
    Item(Code9(11054031), 42000, 130620),
    Item(Code9(11105398), 13500, 35910),
    Item(Code9(11086415), 8400, 23268),
    Item(Code9(11083338), 9000, 40590),
    Item(Code9(11054038), 5400, 18846),
    Item(Code9(11147653), 5400, 14256),
    Item(Code9(11124142), 4800, 14304),
    Item(Code9(11073715), 15000, 8250),
    Item(Code9(11089681), 2400, 1848),
    Item(Code9(11128917), 15000, 17700),
    Item(Code9(11130862), 8000, 6800),
    Item(Code9(11161954), 24000, 43680),
    Item(Code9(11049066), 14400, 12816),
    Item(Code9(11146832), 11400, 14592),
    Item(Code9(11166786), 48000, 11520),
    Item(Code9(11163613), 5400, 15660),
    Item(Code9(11169125), 12600, 35658),
    Item(Code9(11119372), 1200, 2700),
    Item(Code9(11076078), 9600, 15456),
    Item(Code9(11074672), 10800, 15336),
    Item(Code9(11094362), 2400, 3936),
    Item(Code9(11046399), 7200, 13896),
    Item(Code9(11140121), 2400, 2568),
    Item(Code9(11140122), 2400, 2568),
    Item(Code9(11162946), 7200, 12528),
    Item(Code9(11162943), 7200, 12528),
    Item(Code9(11016558), 40000, 8000),
    Item(Code9(11039722), 100, 2161),
    Item(Code9(11130854), 20000, 2800),
    Item(Code9(11127596), 4200, 11760),
    Item(Code9(11127598), 3600, 10080),
    Item(Code9(11146627), 1200, 3180),
    Item(Code9(173080), 100, 33228)
>>

\* The item code of the freight line, which generate_summary skips.
ShippingCode == Code9(173080)

\* The match of r'(\d{9})[^\d]+([\d.]+)[^\d]+([\d.]+)$' that starts at i, as
\* the backtracking search finds it: the first separator as long as it can
\* be, then the first number, then the second separator; the last number
\* runs to the end of the line.  <<a, b, c>> are the positions where the
\* first number, the second separator and the second number start.
ItemLineCuts(line, i) ==
    IF ~(i + 8 <= Len(line) /\ \A k \in i..(i + 8) : IsDigit(line[k])) THEN {}
    ELSE LET n == Len(line)
             p == i + 9
         IN  UNION { UNION { { <<a, b, c>> :
                 c \in {c \in (b + 1)..n :
                          /\ \A k \in b..(c - 1) : ~IsDigit(line[k])
                          /\ \A k \in c..n : IsDigitOrDot(line[k])} } :
                 b \in {b \in (a + 1)..n :
                          \A k \in a..(b - 1) : IsDigitOrDot(line[k])} } :
                 a \in {a \in (p + 1)..n :
                          \A k \in p..(a - 1) : ~IsDigit(line[k])} }

\* The cut the search tries first among a set of cuts.
FirstCut(cuts) ==
    CHOOSE x \in cuts : \A y \in cuts :
        \/ x[1] > y[1]
        \/ (x[1] = y[1] /\ x[2] > y[2])
        \/ (x[1] = y[1] /\ x[2] = y[2] /\ x[3] >= y[3])

\* re.findall of the text pattern on one line: the groups of the leftmost
\* match (a match ends at the end of the line, so there is one at most).
FindItemLine(line) ==
    LET starts == {i \in 1..Len(line) : ItemLineCuts(line, i) # {}}
    IN  IF starts = {} THEN <<>>
        ELSE LET i == CHOOSE i \in starts : \A j \in starts : i <= j
                 x == FirstCut(ItemLineCuts(line, i))
             IN  << <<SubSeq(line, i, i + 8),
                      SubSeq(line, x[1], x[2] - 1),
                      SubSeq(line, x[3], Len(line))>> >>

\* The body of the loop over the lines of the text: one item per match whose
\* two numbers convert; a match that raises in float() is dropped.
RECURSIVE PatternItems(_)
PatternItems(lines) ==
    IF lines = <<>> THEN <<>>
    ELSE LET matches == FindItemLine(Head(lines))
             found == IF matches # <<>> /\ FloatOk(matches[1][2]) /\ FloatOk(matches[1][3])
                      THEN <<Item(matches[1][1], FloatOfStr(matches[1][2]),
                                  FloatOfStr(matches[1][3]))>>
                      ELSE <<>>
         IN  found \o PatternItems(Tail(lines))

\* The 9-character windows of the text: a 9-character code is in the text
\* exactly when it is one of them.
Windows9(text) == {SubSeq(text, i, i + 8) : i \in 1..(Len(text) - 8)}

\* The known items whose code is in the text, in the order of sample_items.
KnownItemsIn(text) ==
    LET w == Windows9(text)
        InText(item) == item["Item Code"] \in w
    IN  SelectSeq(sample_items, InText)

\* An extraction that goes on to the pattern pass after the known items.
extract_items_no_early_return(text) ==
    KnownItemsIn(text) \o PatternItems(split(text))

\* extract_items_from_starbucks_invoice(text)
extract_items_from_starbucks_invoice(text) ==
    LET items == KnownItemsIn(text)
    IN  IF items # <<>> THEN items ELSE PatternItems(split(text))

\* ------------------------------------------------------------- the labels

STR_HASH == <<"#">>
STR_SUB_TOTAL == <<"S", "U", "B", " ", "T", "O", "T", "A", "L">>
STR_TAX == <<"T", "A", "X">>
STR_SUMMARY == <<"S", "U", "M", "M", "A", "R", "Y">>
STR_TAX_SUMMARY == <<"T", "A", "X", " ", "S", "U", "M", "M", "A", "R", "Y">>
STR_TOTAL_CAD == <<"T", "O", "T", "A", "L", " ", "(", "C", "A", "D", ")">>
STR_SHIPPING == <<"S", "H", "I", "P", "P", "I", "N", "G">>
STR_HDLG == <<"H", "D", "L", "G">>

ASK_BOSS == "ASK BOSS"
ASK_BOSS_DESC == "ASK BOSS FOR PROPER GL"

\* nums[-1]
Last(nums) == nums[Len(nums)]

\* ---------------------------------------------------------- load_database

\* One row of the sheet, after astype(str).
Entry(code, gl, desc) ==
    ("Item Code" :> code) @@ ("GL Code" :> gl) @@ ("GL Description" :> desc)

\* load_database: item codes of fewer than 9 digits get their leading zeros
\* back.  (A sheet without the three columns ends the process and is not an
\* input here.)
load_database(sheet) ==
    [i \in 1..Len(sheet) |->
        LET x == sheet[i]["Item Code"]
        IN  [sheet[i] EXCEPT !["Item Code"] =
                IF isdigit(x) /\ Len(x) < 9 THEN zfill(x, 9) ELSE x]]

\* extract_text_from_pdf: the text of every page followed by a newline.
RECURSIVE extract_text(_)
extract_text(pages) ==
    IF pages = <<>> THEN <<>>
    ELSE Head(pages) \o <<"\n">> \o extract_text(Tail(pages))

\* ------------------------------------------- process_starbucks_invoice

\* The rows in the order "for table in tables: for row in table" visits them.
RECURSIVE RowsOf(_)
RowsOf(tbls) == IF tbls = <<>> THEN <<>> ELSE Head(tbls) \o RowsOf(Tail(tbls))

\* The quantity and amount test of lines 243 and 249.
NumericCell(c) ==
    /\ Truthy(c)
    /\ \/ c.t \in {"int", "float"}
       \/ (c.t = "str" /\ isdigit(RemoveFirstDot(c.s)))

\* float(cell) in hundredths, for a cell NumericCell accepts.
FloatOfCell(c) ==
    CASE c.t = "int"   -> 100 * c.n
      [] c.t = "float" -> c.n
      [] OTHER         -> FloatOfStr(c.s)

\* Lines 235-263: the row as a line item.  st holds the locals items,
\* tables_processed, subtotal, tax, total and shipping_amount.
ParseLineItem(row, st) ==
    LET item_code == row[2].s
    IN  IF ~MatchNineDigits(item_code) THEN st
        ELSE IF ~NumericCell(row[8]) THEN st
        ELSE IF ~NumericCell(row[10]) THEN st
        ELSE LET qty == FloatOfCell(row[8])
                 amt == FloatOfCell(row[10])
             IN  IF qty > 0 /\ amt > 0
                 THEN [st EXCEPT !.items = Append(@, Item(item_code, qty, amt)),
                                 !.tables_processed = TRUE]
                 ELSE st

\* Lines 208-221: the totals a row carries.
RowTotals(row_str, st) ==
    LET nums == FindMoney(row_str)
    IN  IF Contains(row_str, STR_SUB_TOTAL)
        THEN (IF nums # <<>> THEN [st EXCEPT !.subtotal = Last(nums)] ELSE st)
        ELSE IF Contains(row_str, STR_TAX) /\ ~Contains(row_str, STR_SUMMARY)
        THEN (IF nums # <<>> THEN [st EXCEPT !.tax = Last(nums)] ELSE st)
        ELSE IF Contains(row_str, STR_TOTAL_CAD)
        THEN (IF nums # <<>> THEN [st EXCEPT !.total = Last(nums)] ELSE st)
        ELSE st

\* Lines 200-263: the body of the loop over the rows, for one row.
RowStep(row, st) ==
    IF row = <<>> \/ Len(row) < 10 THEN st
    ELSE IF row[1].t = "str" /\ row[1].s # <<>> /\ Contains(row[1].s, STR_HASH) THEN st
    ELSE LET row_str == StrRow(row)
             st1 == RowTotals(row_str, st)
         IN  IF Len(row) < 10 \/ ~Truthy(row[2]) \/ row[2].t # "str" THEN st1
             ELSE IF Contains(row_str, STR_SHIPPING) \/ Contains(row_str, STR_HDLG)
             THEN LET nums == FindMoney(row_str)
                  IN  IF nums # <<>> THEN [st1 EXCEPT !.shipping_amount = Last(nums)]
                      ELSE st1
             ELSE ParseLineItem(row, st1)

\* A test of line 266 with 'and' for 'or' and the items test inverted.
UseFallbackMutant(processed, its) == ~processed /\ its # <<>>

\* Line 266: whether the text extraction replaces the items of the tables.
UseFallback(processed, its) == ~processed \/ its = <<>>

\* Lines 272-284: the totals of the lines of the text.
RECURSIVE TextTotals(_, _)
TextTotals(lines, st) ==
    IF lines = <<>> THEN st
    ELSE LET line == Head(lines)
             nums == FindMoney(line)
             st1 == IF Contains(line, STR_SUB_TOTAL)
                    THEN (IF nums # <<>> THEN [st EXCEPT !.subtotal = Last(nums)] ELSE st)
                    ELSE IF Contains(line, STR_TAX) /\ ~Contains(line, STR_TAX_SUMMARY)
                    THEN (IF nums # <<>> THEN [st EXCEPT !.tax = Last(nums)] ELSE st)
                    ELSE IF Contains(line, STR_TOTAL_CAD)
                    THEN (IF nums # <<>> THEN [st EXCEPT !.total = Last(nums)] ELSE st)
                    ELSE st
         IN  TextTotals(Tail(lines), st1)

\* Lines 288-292: the shipping amount of the lines of the text.
RECURSIVE TextShipping(_, _)
TextShipping(lines, amount) ==
    IF lines = <<>> THEN amount
    ELSE LET line == Head(lines)
             nums == FindMoney(line)
         IN  TextShipping(Tail(lines),
                 IF (Contains(line, STR_SHIPPING) \/ Contains(line, STR_HDLG)) /\ nums # <<>>
                 THEN Last(nums) ELSE amount)

\* Lines 296-313: the item with its GL code and GL description.
MatchItem(item, db) ==
    LET item_code == item["Item Code"]
        Exact(e) == e["Item Code"] = item_code
        match == SelectSeq(db, Exact)
        item_code_no_zeros == lstrip0(item_code)
        NoZeros(e) == lstrip0(e["Item Code"]) = item_code_no_zeros
        match2 == SelectSeq(db, NoZeros)
        With(gl, desc) == ("GL Code" :> gl) @@ ("GL Description" :> desc) @@ item
    IN  IF match # <<>>
        THEN With(match[1]["GL Code"], match[1]["GL Description"])
        ELSE IF match2 # <<>>
        THEN With(match2[1]["GL Code"], match2[1]["GL Description"])
        ELSE With(ASK_BOSS, ASK_BOSS_DESC)

\* ------------------------------------------------------- generate_summary

\* item.get(key, default)
Get(item, key, default) == IF key \in DOMAIN item THEN item[key] ELSE default

\* A loop that overwrites a bucket where the code adds to it.
RECURSIVE SummaryLoopMutant(_, _)
SummaryLoopMutant(its, acc) ==
    IF its = <<>> THEN acc
    ELSE LET item == Head(its)
             gl_desc == Get(item, "GL Description", ASK_BOSS_DESC)
             amount == Get(item, "Line Total", 0)
         IN  IF Get(item, "Item Code", <<>>) = ShippingCode
             THEN SummaryLoopMutant(Tail(its), acc)
             ELSE SummaryLoopMutant(Tail(its), (gl_desc :> amount) @@ acc)

\* Lines 324-335: the loop over the items, acc being the summary so far.
RECURSIVE SummaryLoop(_, _)
SummaryLoop(its, acc) ==
    IF its = <<>> THEN acc
    ELSE LET item == Head(its)
             gl_desc == Get(item, "GL Description", ASK_BOSS_DESC)
             amount == Get(item, "Line Total", 0)
         IN  IF Get(item, "Item Code", <<>>) = ShippingCode
             THEN SummaryLoop(Tail(its), acc)
             ELSE IF gl_desc \in DOMAIN acc
             THEN SummaryLoop(Tail(its), [acc EXCEPT ![gl_desc] = @ + amount])
             ELSE SummaryLoop(Tail(its), (gl_desc :> amount) @@ acc)

\* The empty dict.
EmptyDict == [k \in {} |-> 0]

generate_summary(its) == IF its = <<>> THEN EmptyDict ELSE SummaryLoop(its, EmptyDict)

\* Lines 372-375: the sum of the amounts of the summary.
RECURSIVE SumAmounts(_)
SumAmounts(d) ==
    IF DOMAIN d = {} THEN 0
    ELSE LET k == CHOOSE k \in DOMAIN d : TRUE
         IN  d[k] + SumAmounts([x \in DOMAIN d \ {k} |-> d[x]])

\* ----------------------------------------------------------------- inputs

\* A row of ten cells: the cells of columns 0, 1, 2, 7 and 9, the others None.
Row(c0, c1, c2, c7, c9) ==
    <<c0, c1, c2, CellNone, CellNone, CellNone, CellNone, c7, CellNone, c9>>

RowHeader == Row(CellStr(<<"#">>), CellStr(<<"I", "T", "E", "M">>), CellStr(<<"D", "E", "S", "C">>), CellStr(<<"Q", "T", "Y">>), CellStr(<<"A", "M", "T">>))
\* valid items: strings, and an int and a float
RowItem1 == Row(CellStr(<<"1">>), CellStr(Code9(11120225)), CellStr(<<"L", "A", "T", "T", "E">>), CellStr(<<"1", "6">>), CellStr(<<"6", "2", ".", "5", "6">>))
RowItem2 == Row(CellStr(<<"2">>), CellStr(Code9(999999999)), CellStr(<<"C", "U", "P">>), CellInt(2), CellFloat(1000))
RowItem3 == Row(CellStr(<<"3">>), CellStr(Code9(11107006)), CellStr(<<"M", "O", "C", "H", "A">>), CellStr(<<"4", "8">>), CellStr(<<"1", "9", "2", ".", "4", "8">>))
\* the freight line as an item row, without a shipping label
RowFreightItem == Row(CellStr(<<"4">>), CellStr(ShippingCode), CellStr(<<"F", "R", "E", "I", "G", "H", "T">>), CellStr(<<"1">>), CellStr(<<"3", "3", "2", ".", "2", "8">>))
\* aggregate rows with no code
RowSubTotal == Row(CellNone, CellNone, CellStr(<<"S", "U", "B", " ", "T", "O", "T", "A", "L">>), CellNone, CellStr(<<"6", "2", ".", "5", "6">>))
RowTax == Row(CellNone, CellNone, CellStr(<<"T", "A", "X">>), CellNone, CellStr(<<"5", ".", "0", "0">>))
RowTotal == Row(CellNone, CellNone, CellStr(<<"T", "O", "T", "A", "L", " ", "(", "C", "A", "D", ")">>), CellNone, CellStr(<<"9", "9", ".", "8", "4">>))
RowShippingNoCode == Row(CellNone, CellNone, CellStr(<<"S", "H", "I", "P", "P", "I", "N", "G", ",", " ", "H", "D", "L", "G">>), CellNone, CellStr(<<"3", "3", ".", "2", "8">>))
\* aggregate rows with a string in the code column
RowShipping == Row(CellNone, CellStr(<<"S", "H", "I", "P", "P", "I", "N", "G", ",", " ", "H", "D", "L", "G">>), CellNone, CellNone, CellStr(<<"3", "3", ".", "2", "8">>))
RowSubTotalCoded == Row(CellStr(<<"5">>), CellStr(Code9(11039690)), CellStr(<<"S", "U", "B", " ", "T", "O", "T", "A", "L">>), CellStr(<<"6">>), CellStr(<<"4", "0", ".", "2", "0">>))
\* rows that are no line item
RowShort == <<CellStr(<<"6">>), CellStr(Code9(11120225)), CellStr(<<"1", "6">>), CellStr(<<"6", "2", ".", "5", "6">>)>>
RowCode8 == Row(CellStr(<<"7">>), CellStr(<<"1", "1", "1", "2", "0", "2", "2", "5">>), CellNone, CellStr(<<"1", "6">>), CellStr(<<"6", "2", ".", "5", "6">>))
RowZeroQty == Row(CellStr(<<"8">>), CellStr(Code9(11120225)), CellNone, CellStr(<<"0">>), CellStr(<<"6", "2", ".", "5", "6">>))
RowBadAmount == Row(CellStr(<<"9">>), CellStr(Code9(11120225)), CellNone, CellInt(16), CellStr(<<"-", "6", "2", ".", "5", "6">>))
\* a code cell of nine digits and a newline
RowCodeNewline == Row(CellStr(<<"1", "0">>), CellStr(Code9(11120225) \o <<"\n">>), CellNone, CellStr(<<"1", "6">>), CellStr(<<"6", "2", ".", "5", "6">>))

RowLib == {RowHeader, RowItem1, RowItem2, RowItem3, RowFreightItem, RowSubTotal,
           RowTax, RowTotal, RowShippingNoCode, RowShipping, RowSubTotalCoded,
           RowShort, RowCode8, RowZeroQty, RowBadAmount, RowCodeNewline}

PageKnown == <<"0", "1", "1", "1", "2", "0", "2", "2", "5", " ", "1", "6", " ", "6", "2", ".", "5", "6">>
PagePattern == <<"9", "9", "9", "9", "9", "9", "9", "9", "9", " ", "2", " ", "1", "0", ".", "0", "0">>
PageBadNumber == <<"8", "8", "8", "8", "8", "8", "8", "8", "8", " ", "1", ".", "2", ".", "3", " ", "4", ".", "0", "0">>
PageSubTotal == <<"S", "U", "B", " ", "T", "O", "T", "A", "L", " ", "7", "0", ".", "0", "0">>
PageTax == <<"T", "A", "X", " ", "3", ".", "0", "0">>
PageTotal == <<"T", "O", "T", "A", "L", " ", "(", "C", "A", "D", ")", " ", "8", "0", ".", "0", "0">>
PageShipping == <<"S", "H", "I", "P", "P", "I", "N", "G", ",", " ", "H", "D", "L", "G", " ", "3", "3", ".", "2", "8">>
PageFreight == <<"F", "R", "E", "I", "G", "H", "T", " ", "0", "0", "0", "1", "7", "3", "0", "8", "0", " ", "1", " ", "3", "3", "2", ".", "2", "8">>
PageBanner == <<"S", "T", "A", "R", "B", "U", "C", "K", "S", " ", "C", "O", "F", "F", "E", "E", " ", "C", "A", "N", "A", "D", "A">>

PageLib == {PageKnown, PagePattern, PageBadNumber, PageSubTotal, PageTax,
            PageTotal, PageShipping, PageFreight, PageBanner}

\* rows of the sheet, before load_database
SheetShort == Entry(<<"1", "1", "1", "2", "0", "2", "2", "5">>, "5000", "COFFEE")
SheetLong == Entry(<<"0", "0", "1", "1", "1", "2", "0", "2", "2", "5">>, "5100", "FOOD")
SheetMocha == Entry(Code9(11107006), "5000", "COFFEE")
SheetSame == Entry(Code9(11120225), "5200", "PAPER")
SheetFreight == Entry(ShippingCode, "6000", "FREIGHT")

SheetLib == {SheetShort, SheetLong, SheetMocha, SheetSame, SheetFreight}

MaxRows == 2
MaxPages == 2
MaxSheetRows == 2

\* The sequences over S of length n at most.
SeqsUpTo(S, n) == UNION {[1..k -> S] : k \in 0..n}

BaseTables == { <<>>,
                << <<RowHeader, RowSubTotal, RowItem1>> >>,
                << <<RowItem1, RowItem2>>, <<RowItem3, RowFreightItem>> >> }
BasePages == { <<>>, <<PageSubTotal, PageTax>>, <<PageKnown, PageShipping>> }
BaseSheets == { <<SheetLong, SheetShort, SheetMocha>> }

RichTables == { <<rows>> : rows \in SeqsUpTo(RowLib, MaxRows) }
RichPages == SeqsUpTo(PageLib, MaxPages)
RichSheets == SeqsUpTo(SheetLib, MaxSheetRows)

\* The inputs of a run: the tables and the pages of the invoice and the rows
\* of the sheet.  One of the three is drawn from its whole bounded set, the
\* other two from the base sets.
Inputs ==
    (RichTables \X BasePages \X BaseSheets)
    \cup (BaseTables \X RichPages \X BaseSheets)
    \cup (BaseTables \X BasePages \X RichSheets)

\* ------------------------------------------------------------------ state

VARIABLES
    database,           \* main: db
    text,               \* main: text
    tables,             \* main: tables
    pc,                 \* where the run is
    rowIdx,             \* the row the loop of line 198 is at, in RowsOf(tables)
    items,
    tables_processed,
    subtotal,
    tax,
    total,
    shipping_amount,
    summary,            \* main: summary
    calculated_subtotal,
    calculated_total,
    output              \* what was printed: the sections, in order

vars == <<database, text, tables, pc, rowIdx, items, tables_processed, subtotal,
          tax, total, shipping_amount, summary, calculated_subtotal,
          calculated_total, output>>

inputs == <<database, text, tables>>
mainvars == <<summary, calculated_subtotal, calculated_total>>

\* main up to the call of process_starbucks_invoice, and its first lines.
Init ==
    /\ \E in \in Inputs :
          /\ tables = in[1]
          /\ text = extract_text(in[2])
          /\ database = load_database(in[3])
    /\ pc = "tables"
    /\ rowIdx = 1
    /\ items = <<>>
    /\ tables_processed = FALSE
    /\ subtotal = 0
    /\ tax = 0
    /\ total = 0
    /\ shipping_amount = 0
    /\ summary = EmptyDict
    /\ calculated_subtotal = 0
    /\ calculated_total = 0
    /\ output = <<>>

\* The locals of process_starbucks_invoice the loop over the rows writes.
Locals ==
    [items |-> items, tables_processed |-> tables_processed, subtotal |-> subtotal,
     tax |-> tax, total |-> total, shipping_amount |-> shipping_amount]

\* Lines 198-263: one pass of the loop over the rows, or its end.
TableRow ==
    /\ pc = "tables"
    /\ IF rowIdx > Len(RowsOf(tables))
       THEN /\ pc' = "fallback"
            /\ UNCHANGED <<rowIdx, items, tables_processed, subtotal, tax, total,
                           shipping_amount>>
       ELSE LET st == RowStep(RowsOf(tables)[rowIdx], Locals)
            IN  /\ items' = st.items
                /\ tables_processed' = st.tables_processed
                /\ subtotal' = st.subtotal
                /\ tax' = st.tax
                /\ total' = st.total
                /\ shipping_amount' = st.shipping_amount
                /\ rowIdx' = rowIdx + 1
                /\ pc' = pc
    /\ UNCHANGED <<inputs, mainvars, output>>

\* Lines 266-268: the text extraction, when the tables gave no item.
Fallback ==
    /\ pc = "fallback"
    /\ IF UseFallback(tables_processed, items)
       THEN /\ items' = extract_items_from_starbucks_invoice(text)
            /\ output' = Append(output, "text extraction")
       ELSE UNCHANGED <<items, output>>
    /\ pc' = "text_totals"
    /\ UNCHANGED <<inputs, mainvars, rowIdx, tables_processed, subtotal, tax, total,
                   shipping_amount>>

\* Lines 271-284: the totals of the text, when one of the three is still 0.
ExtractTextTotals ==
    /\ pc = "text_totals"
    /\ IF subtotal = 0 \/ tax = 0 \/ total = 0
       THEN LET st == TextTotals(split(text), Locals)
            IN  /\ subtotal' = st.subtotal
                /\ tax' = st.tax
                /\ total' = st.total
       ELSE UNCHANGED <<subtotal, tax, total>>
    /\ pc' = "text_shipping"
    /\ UNCHANGED <<inputs, mainvars, rowIdx, items, tables_processed, shipping_amount,
                   output>>

\* Lines 287-292: the shipping amount of the text, when it is still 0.
ExtractTextShipping ==
    /\ pc = "text_shipping"
    /\ shipping_amount' = IF shipping_amount = 0
                          THEN TextShipping(split(text), shipping_amount)
                          ELSE shipping_amount
    /\ pc' = "match"
    /\ UNCHANGED <<inputs, mainvars, rowIdx, items, tables_processed, subtotal, tax,
                   total, output>>

\* Lines 295-315: every item gets its GL code and description; return.
MatchItems ==
    /\ pc = "match"
    /\ items' = [i \in 1..Len(items) |-> MatchItem(items[i], database)]
    /\ pc' = "returned"
    /\ UNCHANGED <<inputs, mainvars, rowIdx, tables_processed, subtotal, tax, total,
                   shipping_amount, output>>

\* A main that goes on to the summary without items.
CheckItemsMutant ==
    /\ pc = "returned"
    /\ output' = Append(output, IF items = <<>> THEN "no items" ELSE "items")
    /\ pc' = "summary"
    /\ UNCHANGED <<inputs, mainvars, rowIdx, items, tables_processed, subtotal, tax,
                   total, shipping_amount>>

\* Lines 354-365 of main: without items, the error and return; else the items.
CheckItems ==
    /\ pc = "returned"
    /\ IF items = <<>>
       THEN /\ output' = Append(output, "no items")
            /\ pc' = "done"
       ELSE /\ output' = Append(output, "items")
            /\ pc' = "summary"
    /\ UNCHANGED <<inputs, mainvars, rowIdx, items, tables_processed, subtotal, tax,
                   total, shipping_amount>>

\* Lines 368-375 of main: the summary and the sum of its amounts.
Summarize ==
    /\ pc = "summary"
    /\ summary' = generate_summary(items)
    /\ calculated_subtotal' = SumAmounts(generate_summary(items))
    /\ output' = Append(output, "summary")
    /\ pc' = "totals"
    /\ UNCHANGED <<inputs, calculated_total, rowIdx, items, tables_processed, subtotal,
                   tax, total, shipping_amount>>

\* A main that reports the subtotal of the invoice as the total's base.
PrintTotalsMutant ==
    /\ pc = "totals"
    /\ calculated_total' = subtotal + shipping_amount + tax
    /\ output' = Append(output, "totals")
    /\ pc' = "done"
    /\ UNCHANGED <<inputs, summary, calculated_subtotal, rowIdx, items,
                   tables_processed, subtotal, tax, total, shipping_amount>>

\* Lines 378-388 of main: shipping, sub total, tax and the calculated total.
PrintTotals ==
    /\ pc = "totals"
    /\ calculated_total' = calculated_subtotal + shipping_amount + tax
    /\ output' = Append(output, "totals")
    /\ pc' = "done"
    /\ UNCHANGED <<inputs, summary, calculated_subtotal, rowIdx, items,
                   tables_processed, subtotal, tax, total, shipping_amount>>

Next ==
    \/ TableRow
    \/ Fallback
    \/ ExtractTextTotals
    \/ ExtractTextShipping
    \/ MatchItems
    \/ CheckItems
    \/ Summarize
    \/ PrintTotals

Spec == Init /\ [][Next]_vars

\* ----------------------------------------------------------------- claims

\* The row the loop over the rows is at.
AtRow == pc = "tables" /\ rowIdx <= Len(RowsOf(tables))
CurrentRow == RowsOf(tables)[rowIdx]

AfterFallback == pc \notin {"tables", "fallback"}
AfterReturn == pc \in {"returned", "summary", "totals", "done"}

\* The text extraction of line 268 ran (line 267 prints it).
TextExtractionRan == \E k \in 1..Len(output) : output[k] = "text extraction"

\* An item without its GL fields.
Core(item) == Item(item["Item Code"], item["Quantity"], item["Line Total"])

\* The numbers of the known items whose code occurs in the text.
KnownIn(txt) == {k \in 1..Len(sample_items) : Contains(txt, sample_items[k]["Item Code"])}

\* The sum of the line totals of the items at the indexes idx.
RECURSIVE SumLineTotals(_, _)
SumLineTotals(its, idx) ==
    IF idx = {} THEN 0
    ELSE LET i == CHOOSE i \in idx : TRUE
         IN  its[i]["Line Total"] + SumLineTotals(its, idx \ {i})

\* The indexes of the items that are not the freight line.
Merchandise(its) == {i \in 1..Len(its) : its[i]["Item Code"] # ShippingCode}

\* A row of the table pass that carries an aggregate label: ten cells at
\* least, no header.
HasLabel(row, label) == Contains(StrRow(row), label)
IsHeader(row) == row[1].t = "str" /\ Contains(row[1].s, STR_HASH)
IsSubTotalRow(row) == HasLabel(row, STR_SUB_TOTAL)
IsTaxRow(row) == HasLabel(row, STR_TAX) /\ ~HasLabel(row, STR_SUMMARY)
IsTotalRow(row) == HasLabel(row, STR_TOTAL_CAD)
IsShippingRow(row) == HasLabel(row, STR_SHIPPING) \/ HasLabel(row, STR_HDLG)
IsAggregateRow(row) ==
    /\ Len(row) >= 10
    /\ ~IsHeader(row)
    /\ (IsSubTotalRow(row) \/ IsTaxRow(row) \/ IsTotalRow(row) \/ IsShippingRow(row))

\* C1: in the table pass, a row of ten cells or more that is no header and
\* carries an aggregate label has its last two-decimal number routed to the
\* accumulator of the label and never adds a line item.
C1_AggregateRowNeverAnItem ==
    [][(AtRow /\ IsAggregateRow(CurrentRow)) =>
          LET row == CurrentRow
              nums == FindMoney(StrRow(row))
          IN  /\ items' = items
              /\ nums # <<>> =>
                    /\ IsSubTotalRow(row) => subtotal' = Last(nums)
                    /\ (IsTaxRow(row) /\ ~IsSubTotalRow(row)) => tax' = Last(nums)
                    /\ (IsTotalRow(row) /\ ~IsSubTotalRow(row) /\ ~IsTaxRow(row))
                          => total' = Last(nums)
                    /\ IsShippingRow(row) => shipping_amount' = Last(nums)]_vars

\* C2 as stated: whenever a known item code occurs in the text, the items
\* returned are exactly the known items whose codes occur in the text.
C2_KnownItemsAlwaysAuthoritative ==
    (AfterFallback /\ KnownIn(text) # {}) =>
        /\ Len(items) = Cardinality(KnownIn(text))
        /\ \A j \in 1..Len(items) : \E k \in KnownIn(text) : Core(items[j]) = sample_items[k]

\* C2 as amended: when the table pass gave no item (the text extraction ran)
\* and a known item code occurs in the text, the items returned are exactly
\* the known items whose codes occur in the text, in the order of the list;
\* the pattern pass adds none.
C2_KnownItemsAuthoritativeInFallback ==
    (AfterFallback /\ TextExtractionRan /\ KnownIn(text) # {}) =>
        /\ Len(items) = Cardinality(KnownIn(text))
        /\ \A j \in 1..Len(items) : \E k \in KnownIn(text) :
              /\ Core(items[j]) = sample_items[k]
              /\ Cardinality({k2 \in KnownIn(text) : k2 <= k}) = j

\* The text holds a known code and, on another line, a code with two numbers
\* that the pattern pass would take; the known item alone is returned.
C2_Witness ==
    /\ pc = "done"
    /\ TextExtractionRan
    /\ KnownIn(text) # {}
    /\ Contains(text, PagePattern)
    /\ Len(items) = 1

\* C3: the text pass leaves a total the table pass set (a value that is not
\* 0) as it is, for subtotal, tax and total each, and for the shipping amount.
C3_TextPassKeepsTableTotals ==
    [][/\ pc = "text_totals" =>
             /\ subtotal # 0 => subtotal' = subtotal
             /\ tax # 0 => tax' = tax
             /\ total # 0 => total' = total
       /\ pc = "text_shipping" =>
             (shipping_amount # 0 => shipping_amount' = shipping_amount)]_vars

\* C4: the freight item (code 000173080) adds to no bucket of the summary,
\* and whenever it is among the items returned its line total is the
\* shipping amount reported.
C4_FreightCountedOnce ==
    /\ pc \in {"totals", "done"} /\ items # <<>> =>
          SumAmounts(summary) = SumLineTotals(items, Merchandise(items))
    /\ AfterReturn =>
          \A i \in 1..Len(items) :
              items[i]["Item Code"] = ShippingCode => items[i]["Line Total"] = shipping_amount

\* A code of exactly nine digits.
NineDigits(code) == Len(code) = 9 /\ \A k \in 1..9 : code[k] \in Digits

\* A row that must give no item: too short, a header, a code that is not
\* nine digits, or a quantity or amount that is missing, not a number, or
\* not above 0.
NumberAboveZero(c) ==
    \/ c.t \in {"int", "float"} /\ c.n > 0
    \/ /\ c.t = "str"
       /\ c.s # <<>>
       /\ \A k \in 1..Len(c.s) : IsDigitOrDot(c.s[k])
       /\ FloatOk(c.s)
       /\ FloatOfStr(c.s) > 0
NoItemRow(row) ==
    \/ Len(row) < 10
    \/ IsHeader(row)
    \/ row[2].t # "str"
    \/ ~NineDigits(row[2].s)
    \/ ~NumberAboveZero(row[8])
    \/ ~NumberAboveZero(row[10])

\* C5: every item of the table pass has a code of exactly nine digits, a
\* quantity above 0 and a line total above 0; a row that is too short, a
\* header, or has a bad code, quantity or amount gives no item, and the loop
\* goes on to the next row.
C5_TableItemsWellFormed ==
    [][AtRow =>
          /\ \A i \in 1..Len(items') :
                /\ NineDigits(items'[i]["Item Code"])
                /\ items'[i]["Quantity"] > 0
                /\ items'[i]["Line Total"] > 0
          /\ NoItemRow(CurrentRow) => items' = items
          /\ rowIdx' = rowIdx + 1 /\ pc' = "tables"]_vars

\* r is s without its leading zeros.
StrippedOf(s, r) ==
    \E z \in 0..Len(s) :
        /\ \A k \in 1..z : s[k] = "0"
        /\ r = SubSeq(s, z + 1, Len(s))
        /\ (r = <<>> \/ r[1] # "0")

\* a and b differ in their leading zeros at most.
SameButZeros(a, b) ==
    \E z \in 0..Len(a) : StrippedOf(a, SubSeq(a, z + 1, Len(a)))
                         /\ StrippedOf(b, SubSeq(a, z + 1, Len(a)))

\* C6: every item returned has the GL code and description of the first
\* entry of the database whose code is the item's code; without one, of the
\* first entry whose code is the item's code up to leading zeros; without
\* one, ASK BOSS and ASK BOSS FOR PROPER GL.
C6_Reconciliation ==
    AfterReturn =>
        \A i \in 1..Len(items) :
            LET code == items[i]["Item Code"]
                E == {k \in 1..Len(database) : database[k]["Item Code"] = code}
                Z == {k \in 1..Len(database) : SameButZeros(database[k]["Item Code"], code)}
                First(S) == CHOOSE k \in S : \A k2 \in S : k <= k2
                From(k) == /\ items[i]["GL Code"] = database[k]["GL Code"]
                           /\ items[i]["GL Description"] = database[k]["GL Description"]
            IN  IF E # {} THEN From(First(E))
                ELSE IF Z # {} THEN From(First(Z))
                ELSE /\ items[i]["GL Code"] = ASK_BOSS
                     /\ items[i]["GL Description"] = ASK_BOSS_DESC

\* An item matched by a code that differs from its own in leading zeros, and
\* an item that no entry matches.
C6_Witness ==
    /\ pc = "done"
    /\ \E i \in 1..Len(items) :
          /\ items[i]["GL Code"] # ASK_BOSS
          /\ \A k \in 1..Len(database) : database[k]["Item Code"] # items[i]["Item Code"]
    /\ \E i \in 1..Len(items) : items[i]["GL Code"] = ASK_BOSS

\* C7: the summary has one entry for each GL description among the items
\* that are not the freight line, the sentinel description included, and
\* the entry is the sum of the line totals of those items.
C7_SummaryBuckets ==
    pc \in {"totals", "done"} /\ items # <<>> =>
        /\ DOMAIN summary = {items[i]["GL Description"] : i \in Merchandise(items)}
        /\ \A d \in DOMAIN summary :
              summary[d] = SumLineTotals(items,
                  {i \in Merchandise(items) : items[i]["GL Description"] = d})

\* Two items in one bucket, an item in the sentinel bucket and a freight
\* line that is in none.
C7_Witness ==
    /\ pc = "done"
    /\ \E i, j \in Merchandise(items) :
          i # j /\ items[i]["GL Description"] = items[j]["GL Description"]
    /\ \E i \in Merchandise(items) : items[i]["GL Description"] = ASK_BOSS_DESC
    /\ Merchandise(items) # 1..Len(items)

\* C8: a run that returns no item from process_starbucks_invoice prints that
\* no items were extracted and ends: no summary, no subtotal and no total.
C8_NoItemsStops ==
    (items = <<>> /\ pc \notin {"tables", "fallback", "text_totals", "text_shipping",
                                "match", "returned"}) =>
        /\ pc = "done"
        /\ output[Len(output)] = "no items"
        /\ \A k \in 1..Len(output) : output[k] \notin {"items", "summary", "totals"}
        /\ summary = EmptyDict
        /\ calculated_subtotal = 0
        /\ calculated_total = 0

\* The tables had rows and the text had lines, and neither gave an item.
C8_Witness ==
    /\ pc = "done"
    /\ items = <<>>
    /\ TextExtractionRan
    /\ RowsOf(tables) # <<>>
    /\ text # <<>>

\* C9: the subtotal reported is the sum of the buckets of the summary, which
\* is the sum of the line totals of the items but the freight line, and the
\* total reported is that subtotal plus the shipping amount plus the tax; the
\* subtotal and total read from the invoice are in neither.
C9_CalculatedTotals ==
    pc = "done" /\ items # <<>> =>
        /\ calculated_subtotal = SumAmounts(summary)
        /\ calculated_subtotal = SumLineTotals(items, Merchandise(items))
        /\ calculated_total = calculated_subtotal + shipping_amount + tax

\* The invoice states a subtotal and a total that differ from the ones
\* calculated, with tax and shipping.
C9_Witness ==
    /\ pc = "done"
    /\ items # <<>>
    /\ subtotal # 0 /\ subtotal # calculated_subtotal
    /\ total # calculated_total
    /\ tax # 0
    /\ shipping_amount # 0

\* C10: a pass of the table loop adds at most the item of its row, at the
\* end of the list; the text extraction runs exactly when the table pass left
\* no item, and then the items are its result; else they stay the items of
\* the table pass.
C10_TierSelection ==
    [][/\ AtRow =>
             \/ items' = items
             \/ /\ Len(items') = Len(items) + 1
                /\ SubSeq(items', 1, Len(items)) = items
                /\ items'[Len(items')]["Item Code"] = CurrentRow[2].s
       /\ pc = "fallback" =>
             /\ (\E k \in 1..Len(output') : output'[k] = "text extraction") <=> items = <<>>
             /\ items # <<>> => items' = items
             /\ items = <<>> => items' = extract_items_from_starbucks_invoice(text)]_vars

\* Two items of the tables are kept although the text holds a known code.
C10_Witness ==
    /\ pc = "text_totals"
    /\ Len(items) >= 2
    /\ ~TextExtractionRan
    /\ KnownIn(text) # {}

====
